---------------------------- MODULE Spec2Model ----------------------------
(***************************************************************************)
(* Model of the retrieval engine of RAG-bot: backend/rag.py (TextChunker,  *)
(* EmbeddingService, VectorStore) and the request handlers of              *)
(* backend/main.py that drive the global vector_store.                     *)
(*                                                                         *)
(* A text is a sequence of one-character strings.  A float is a fixed-     *)
(* point integer counting units of 1/SCALE (or the value NaN); a dense     *)
(* vector of dimension 384 is the function from its nonzero slots to their *)
(* values.  The 'added_at' timestamp of a document is left out: it is an   *)
(* input of the clock that no operation reads.                             *)
(***************************************************************************)
EXTENDS Integers, Sequences, FiniteSets, TLC

VARIABLES
    documents,   \* VectorStore.documents: dict doc_id -> document, in insertion order
    chunks,      \* VectorStore.chunks: dict chunk_id -> chunk record
    index,       \* VectorStore.index: list of chunk ids
    vectors,     \* VectorStore.vectors: None or the matrix (one row per index entry)
    hashseed,    \* the per-process seed of the interpreter's str hash
    last,        \* the last completed call and what it returned
    loop,        \* the handler running on the event loop thread, with its locals
    pool,        \* the handler running on a worker thread, with its locals
    started      \* the number of handlers started on the two threads

vars == <<documents, chunks, index, vectors, hashseed, last, loop, pool, started>>
store == <<documents, chunks, index, vectors>>

---------------------------------------------------------------------------
(* Bounds of the model.                                                    *)

\* Fixed-point resolution: a float x is the integer nearest below x * SCALE.
SCALE == 1000
\* add_document is called only when the index will hold at most this many entries.
MaxIndex == 2
\* The texts given to chunk_text alone (SpecChunk) have at most this many
\* characters, and chunk_size is at most MaxChunkSize.
MaxLen == 6
MaxChunkSize == 3
\* The handlers that interleave (SpecConc): no more than this many are started.
MaxStarted == 3

---------------------------------------------------------------------------
(* Program constants.                                                      *)

DIMENSION == 384            \* rag.py:42, 47, 52
MAX_WORDS == 50             \* rag.py:45
SPREAD == 5                 \* rag.py:51
SPREAD_STRIDE == 77         \* rag.py:52
DEFAULT_CHUNK_SIZE == 1000  \* rag.py:107
DEFAULT_OVERLAP == 200      \* rag.py:107
DEFAULT_TOP_K == 5          \* rag.py:178; main.py:64

\* self.vectors is None, or the matrix with the given rows
None == [is_none |-> TRUE, rows |-> <<>>]
Matrix(rows) == [is_none |-> FALSE, rows |-> rows]

\* a float: a number v / SCALE, or nan
Float(v) == [nan |-> FALSE, v |-> v]
NaN == [nan |-> TRUE, v |-> 0]

---------------------------------------------------------------------------
(* Sequences and sets.                                                     *)

SetMin(S) == CHOOSE x \in S : \A y \in S : x <= y
SetMax(S) == CHOOSE x \in S : \A y \in S : x >= y

RECURSIVE SortedSeq(_)
\* The elements of a finite set of integers, ascending.
SortedSeq(S) ==
    IF S = {} THEN <<>>
    ELSE LET m == SetMin(S) IN <<m>> \o SortedSeq(S \ {m})

Range(s) == {s[i] : i \in 1..Len(s)}

RECURSIVE SumSeq(_)
SumSeq(s) == IF s = <<>> THEN 0 ELSE Head(s) + SumSeq(Tail(s))

\* n copies of c.
Rep(c, n) == [i \in 1..n |-> c]

\* list[:k] of Python, k of either sign.
PyPrefix(s, k) ==
    IF k >= 0 THEN SubSeq(s, 1, IF k < Len(s) THEN k ELSE Len(s))
    ELSE SubSeq(s, 1, IF Len(s) + k > 0 THEN Len(s) + k ELSE 0)

\* list[::-1]
Reverse(s) == [i \in 1..Len(s) |-> s[Len(s) + 1 - i]]

---------------------------------------------------------------------------
(* Strings: str.lower, str.strip, str.split, str.split(sep), re.split.     *)

Whitespace == {" ", "\n", "\t"}
SentenceEnd == {".", "!", "?"}

LowerChar(c) ==
    CASE c = "A" -> "a"
      [] c = "B" -> "b"
      [] c = "C" -> "c"
      [] OTHER -> c

\* str.lower()
lower(s) == [i \in 1..Len(s) |-> LowerChar(s[i])]

\* str.strip()
strip(s) ==
    LET keep == {i \in 1..Len(s) : s[i] \notin Whitespace}
    IN  IF keep = {} THEN <<>> ELSE SubSeq(s, SetMin(keep), SetMax(keep))

\* str.split(): the maximal runs of non-whitespace, in order.
split(s) ==
    LET n      == Len(s)
        starts == {i \in 1..n : s[i] \notin Whitespace
                                /\ (i = 1 \/ s[i-1] \in Whitespace)}
        ends   == {i \in 1..n : s[i] \notin Whitespace
                                /\ (i = n \/ s[i+1] \in Whitespace)}
        ss     == SortedSeq(starts)
    IN  [k \in 1..Len(ss) |->
            SubSeq(s, ss[k], SetMin({e \in ends : e >= ss[k]}))]

RECURSIVE LeftmostMatches(_, _)
\* Of the candidate start positions P of a two-character separator, those a
\* left-to-right scan takes: a match is skipped when it overlaps the one before.
LeftmostMatches(P, from) ==
    LET Q == {p \in P : p >= from}
    IN  IF Q = {} THEN <<>>
        ELSE LET p == SetMin(Q) IN <<p>> \o LeftmostMatches(Q, p + 2)

\* The pieces of s between the matches; match k covers from[k]..to[k].
Pieces(s, from, to) ==
    [k \in 1..(Len(from) + 1) |->
        SubSeq(s, IF k = 1 THEN 1 ELSE to[k-1] + 1,
                  IF k = Len(from) + 1 THEN Len(s) ELSE from[k] - 1)]

\* text.split('\n\n')
split_paragraphs(s) ==
    LET P  == {i \in 1..(Len(s) - 1) : s[i] = "\n" /\ s[i+1] = "\n"}
        ms == LeftmostMatches(P, 1)
    IN  Pieces(s, ms, [k \in 1..Len(ms) |-> ms[k] + 1])

\* re.split(r'(?<=[.!?])\s+', para): a match is a maximal run of whitespace
\* that follows a sentence end.
split_sentences(s) ==
    LET n    == Len(s)
        M    == {i \in 2..n : s[i] \in Whitespace /\ s[i-1] \in SentenceEnd}
        ms   == SortedSeq(M)
        stop == {i \in 1..n : s[i] \in Whitespace
                              /\ (i = n \/ s[i+1] \notin Whitespace)}
    IN  Pieces(s, ms, [k \in 1..Len(ms) |-> SetMin({e \in stop : e >= ms[k]})])

---------------------------------------------------------------------------
(* TextChunker.chunk_text                                                  *)

\* chunks.append(current_chunk.strip()) when current_chunk is not empty
Flush(cs, current_chunk) ==
    IF current_chunk # <<>> THEN Append(cs, strip(current_chunk)) ELSE cs

RECURSIVE SentenceLoop(_, _, _, _)
\* for sentence in sentences (rag.py:126-132); st = [chunks, current_chunk]
SentenceLoop(sentences, k, st, chunk_size) ==
    IF k > Len(sentences) THEN st
    ELSE LET sentence == sentences[k] IN
         IF Len(st.current_chunk) + Len(sentence) < chunk_size
         THEN SentenceLoop(sentences, k + 1,
                  [st EXCEPT !.current_chunk = @ \o sentence \o <<" ">>],
                  chunk_size)
         ELSE SentenceLoop(sentences, k + 1,
                  [chunks |-> Flush(st.chunks, st.current_chunk),
                   current_chunk |-> sentence \o <<" ">>],
                  chunk_size)

RECURSIVE ParagraphLoop(_, _, _, _)
\* for para in paragraphs (rag.py:117-134)
ParagraphLoop(paragraphs, k, st, chunk_size) ==
    IF k > Len(paragraphs) THEN st
    ELSE LET para == paragraphs[k] IN
         IF Len(st.current_chunk) + Len(para) < chunk_size
         THEN ParagraphLoop(paragraphs, k + 1,
                  [st EXCEPT !.current_chunk = @ \o para \o <<"\n", "\n">>],
                  chunk_size)
         ELSE LET flushed == Flush(st.chunks, st.current_chunk) IN
              IF Len(para) > chunk_size
              THEN ParagraphLoop(paragraphs, k + 1,
                       SentenceLoop(split_sentences(para), 1,
                           [chunks |-> flushed, current_chunk |-> <<>>],
                           chunk_size),
                       chunk_size)
              ELSE ParagraphLoop(paragraphs, k + 1,
                       [chunks |-> flushed,
                        current_chunk |-> para \o <<"\n", "\n">>],
                       chunk_size)

\* chunk_text with the append after the loop (rag.py:136-137) left out
chunk_text_without_last_append(text, chunk_size, overlap) ==
    IF text = <<>> THEN <<>>
    ELSE IF Len(text) < chunk_size THEN <<text>>
    ELSE ParagraphLoop(split_paragraphs(text), 1,
             [chunks |-> <<>>, current_chunk |-> <<>>], chunk_size).chunks

\* TextChunker.chunk_text(text, chunk_size, overlap); overlap is never read.
chunk_text(text, chunk_size, overlap) ==
    IF text = <<>> THEN <<>>
    ELSE IF Len(text) < chunk_size THEN <<text>>
    ELSE LET st == ParagraphLoop(split_paragraphs(text), 1,
                       [chunks |-> <<>>, current_chunk |-> <<>>], chunk_size)
         IN  Flush(st.chunks, st.current_chunk)

---------------------------------------------------------------------------
(* Floats.  Every value is a fixed-point integer in units of 1/SCALE, or   *)
(* NaN.  A product of two values is in units of 1/SCALE^2.                 *)

RECURSIVE Bisect(_, _, _)
Bisect(n, lo, hi) ==
    IF lo = hi THEN lo
    ELSE LET mid == (lo + hi + 1) \div 2
         IN  IF mid * mid <= n THEN Bisect(n, mid, hi) ELSE Bisect(n, lo, mid - 1)

\* The integer square root, for 0 <= n < 2^30.
ISqrt(n) == Bisect(n, 0, 32767)

\* numpy's a / b on floats: 0/0 is nan (a warning, no exception).  The
\* divisor is zero only for an all-zero row, whose dot product is zero too.
FloatDiv(a, b) == IF b = 0 THEN NaN ELSE Float((a * SCALE) \div b)

\* The vector with the given entries, zero entries dropped.
Vec(f) == LET S == {k \in DOMAIN f : f[k] # 0} IN [k \in S |-> f[k]]

ZeroVector == Vec(<<>>)

RECURSIVE SumOver(_, _)
SumOver(f, S) ==
    IF S = {} THEN 0
    ELSE LET k == CHOOSE x \in S : TRUE IN f[k] + SumOver(f, S \ {k})

\* np.dot of two vectors, in units of 1/SCALE^2
Dot(u, v) ==
    LET S == DOMAIN u \cap DOMAIN v
    IN  SumOver([k \in S |-> u[k] * v[k]], S)

\* np.linalg.norm of a vector; sqrt(sum(x * x)) of rag.py:56
Norm(u) == ISqrt(Dot(u, u))

---------------------------------------------------------------------------
(* EmbeddingService                                                        *)

CharCode(c) ==
    CASE c = "a" -> 97 [] c = "b" -> 98 [] c = "c" -> 99
      [] c = "A" -> 65 [] c = "B" -> 66 [] c = "C" -> 67
      [] c = "." -> 46 [] c = "!" -> 33 [] c = "?" -> 63
      [] OTHER -> 32

RECURSIVE WordCode(_)
WordCode(w) ==
    IF w = <<>> THEN 0
    ELSE (WordCode(SubSeq(w, 1, Len(w) - 1)) * 31 + CharCode(w[Len(w)])) % 65536

\* hash(word) % 384 (rag.py:47).  The str hash of the interpreter is keyed with
\* a seed drawn when the process starts: within one process it is a fixed
\* function of the word, and which function is not known.  The seeds of
\* HashSeeds give words in disjoint slots (1), in overlapping slots (77) and
\* all words in the same slots (384).
word_hash(word) == ((WordCode(word) % DIMENSION) * hashseed) % DIMENSION

HashSeeds == {1, 77, 384}

\* 1.0 / (1.0 + i * 0.1)
position_weight(i) == (10 * SCALE) \div (10 + i)

\* the slots word i of the text adds its weight to (rag.py:51-53)
word_slots(word) ==
    {(word_hash(word) + offset * SPREAD_STRIDE) % DIMENSION : offset \in 0..(SPREAD - 1)}

\* EmbeddingService._simple_embed
simple_embed(text) ==
    LET words == PyPrefix(split(strip(lower(text))), MAX_WORDS)
        slots == UNION {word_slots(words[i]) : i \in 1..Len(words)}
        embedding == [k \in slots |->
            SumOver([i \in 1..Len(words) |-> position_weight(i - 1)],
                    {i \in 1..Len(words) : k \in word_slots(words[i])})]
        magnitude == Norm(embedding)
    IN  IF magnitude > 0
        THEN Vec([k \in slots |-> (embedding[k] * SCALE) \div magnitude])
        ELSE Vec(embedding)

\* EmbeddingService.embed (the sentence-transformers model is disabled, rag.py:11)
embed(text) == IF text = <<>> THEN ZeroVector ELSE simple_embed(text)

---------------------------------------------------------------------------
(* Python dicts.  documents keeps its insertion order (get_documents lists *)
(* its values): it is the sequence of its values, each carrying its key in *)
(* .id.  chunks is only looked up and counted: it is a function.           *)

EmptyDict == <<>>

DocKeys(d) == {d[i].id : i \in 1..Len(d)}
DocGet(d, k) == d[CHOOSE i \in 1..Len(d) : d[i].id = k]

\* d[k] = v: a key that is present keeps its place
DocSet(d, k, v) ==
    IF k \in DocKeys(d)
    THEN [i \in 1..Len(d) |-> IF d[i].id = k THEN v ELSE d[i]]
    ELSE Append(d, v)

\* d[k] = v on a dict held as a function
MapSet(d, k, v) == [x \in DOMAIN d \cup {k} |-> IF x = k THEN v ELSE d[x]]

---------------------------------------------------------------------------
(* VectorStore, as operators on a store s = [documents, chunks, index,     *)
(* vectors].                                                               *)

\* VectorStore.__init__
NewStore == [documents |-> EmptyDict, chunks |-> EmptyDict,
             index |-> <<>>, vectors |-> None]

TheStore == [documents |-> documents, chunks |-> chunks,
             index |-> index, vectors |-> vectors]

\* f"{doc_id}_{i}": the pair determines the string and the string the pair
\* (the text after the last underscore is i).
chunk_id(doc_id, i) == <<doc_id, i>>

\* rag.py:149-155
put_document(s, doc_id, filename, text) ==
    [s EXCEPT !.documents = DocSet(@, doc_id,
        [id |-> doc_id, filename |-> filename, text |-> text, chunks |-> <<>>])]

\* rag.py:158-166
put_chunk(s, doc_id, filename, i, chunk) ==
    [s EXCEPT !.chunks = MapSet(@, chunk_id(doc_id, i),
        [id |-> chunk_id(doc_id, i), doc_id |-> doc_id, content |-> chunk,
         embedding |-> embed(chunk), filename |-> filename])]

\* rag.py:167
append_index(s, cid) == [s EXCEPT !.index = Append(@, cid)]

\* rag.py:168; a KeyError when doc_id is not a key of documents
append_doc_chunk(s, doc_id, cid) ==
    [s EXCEPT !.documents = DocSet(@, doc_id,
        [DocGet(@, doc_id) EXCEPT !.chunks = Append(@, cid)])]

\* VectorStore._rebuild_index
rebuild_index(s) ==
    IF s.index = <<>> THEN [s EXCEPT !.vectors = None]
    ELSE [s EXCEPT !.vectors =
             Matrix([i \in 1..Len(s.index) |-> s.chunks[s.index[i]].embedding])]

RECURSIVE add_chunks(_, _, _, _, _)
\* for i, chunk in enumerate(chunks) (rag.py:157-168); i counts from 0
add_chunks(s, doc_id, filename, cs, i) ==
    IF i >= Len(cs) THEN s
    ELSE add_chunks(
             append_doc_chunk(
                 append_index(put_chunk(s, doc_id, filename, i, cs[i + 1]),
                              chunk_id(doc_id, i)),
                 doc_id, chunk_id(doc_id, i)),
             doc_id, filename, cs, i + 1)

\* add_document with the call of _rebuild_index left out
add_document_without_rebuild(s, doc_id, filename, text) ==
    add_chunks(put_document(s, doc_id, filename, text), doc_id, filename,
               chunk_text(text, DEFAULT_CHUNK_SIZE, DEFAULT_OVERLAP), 0)

\* VectorStore.add_document
add_document(s, doc_id, filename, text) ==
    rebuild_index(
        add_chunks(put_document(s, doc_id, filename, text), doc_id, filename,
                   chunk_text(text, DEFAULT_CHUNK_SIZE, DEFAULT_OVERLAP), 0))

\* clear with self.vectors = None left out
clear_keeping_vectors(s) ==
    [s EXCEPT !.documents = EmptyDict, !.chunks = EmptyDict, !.index = <<>>]

\* VectorStore.clear
clear(s) == [s EXCEPT !.documents = EmptyDict, !.chunks = EmptyDict,
                      !.index = <<>>, !.vectors = None]

\* VectorStore.get_documents
get_documents(s) == s.documents

---------------------------------------------------------------------------
(* VectorStore.search                                                      *)

\* rag.py:193-200: matches / max(len(query_words), 1)
keyword_score(query, content) ==
    LET query_words == Range(split(lower(query)))
        chunk_words == Range(split(lower(content)))
        matches     == Cardinality(query_words \cap chunk_words)
        n           == Cardinality(query_words)
    IN  Float((matches * SCALE) \div (IF n > 1 THEN n ELSE 1))

\* rag.py:188-190, one row: dot / (norm_docs * norm_q), with no guard
similarity(row, query_embedding, norm_q) ==
    FloatDiv(Dot(row, query_embedding), Norm(row) * norm_q)

\* rag.py:205: similarities * 0.7 + keyword_scores * 0.3; nan stays nan
combine(sim, kw) ==
    IF sim.nan \/ kw.nan THEN NaN ELSE Float((sim.v * 7 + kw.v * 3) \div 10)

\* combined_scores, one per row of the matrix m read with the index idx and
\* the chunk mapping cm
combined_scores(m, idx, cm, query) ==
    LET query_embedding == embed(query)
        norm_q == Norm(query_embedding)
    IN  [i \in 1..Len(idx) |->
            combine(similarity(m.rows[i], query_embedding, norm_q),
                    keyword_score(query, cm[idx[i]].content))]

\* the order np.argsort sorts floats in: ascending, nan after every number
SortsBefore(a, b) == b.nan \/ (~a.nan /\ a.v <= b.v)

\* np.argsort(scores) (rag.py:207): the default kind is not stable, so equal
\* scores come in any order; positions count from 1 here
Argsorts(scores) ==
    {p \in [1..Len(scores) -> 1..Len(scores)] :
        /\ \A i, j \in 1..Len(scores) : i # j => p[i] # p[j]
        /\ \A i \in 1..(Len(scores) - 1) : SortsBefore(scores[p[i]], scores[p[i+1]])}

\* score >= threshold (rag.py:212): False for nan
AtLeast(score, threshold) == ~score.nan /\ score.v >= threshold

\* top_results with the [::-1] of rag.py:207 left out
top_results_ascending(s, scores, order, top_k, threshold) ==
    LET top_indices == PyPrefix(order, top_k)
        kept == SelectSeq(top_indices, LAMBDA i : AtLeast(scores[i], threshold))
    IN  [k \in 1..Len(kept) |->
            LET chunk == s.chunks[s.index[kept[k]]]
            IN  [chunk_id |-> s.index[kept[k]], content |-> chunk.content,
                 similarity |-> scores[kept[k]], filename |-> chunk.filename,
                 doc_id |-> chunk.doc_id]]

\* rag.py:207-222, with order the result of np.argsort
top_results(s, scores, order, top_k, threshold) ==
    LET top_indices == PyPrefix(Reverse(order), top_k)
        kept == SelectSeq(top_indices, LAMBDA i : AtLeast(scores[i], threshold))
    IN  [k \in 1..Len(kept) |->
            LET chunk == s.chunks[s.index[kept[k]]]
            IN  [chunk_id |-> s.index[kept[k]], content |-> chunk.content,
                 similarity |-> scores[kept[k]], filename |-> chunk.filename,
                 doc_id |-> chunk.doc_id]]

\* the returns before any score is computed (rag.py:179-186)
search_is_empty(s, query) ==
    \/ DOMAIN s.chunks = {}
    \/ s.vectors.is_none
    \/ Norm(embed(query)) = 0

\* combined_scores as search computes it; nothing on an early return
search_scores(s, query) ==
    IF search_is_empty(s, query) THEN <<>>
    ELSE combined_scores(s.vectors, s.index, s.chunks, query)

\* search with an in-place self.index.reverse() in place of the [::-1]
after_search_reversing_index(s, query, top_k, threshold) ==
    IF search_is_empty(s, query) THEN s ELSE [s EXCEPT !.index = Reverse(@)]

\* the store after search: no statement of rag.py:178-222 assigns to a field
\* of self or changes a list or dict a field holds
after_search(s, query, top_k, threshold) == s

\* the exception search raises: none, whatever top_k and threshold are (no
\* statement of rag.py:178-222 tests top_k; top_k is only the bound of the
\* slice at rag.py:207)
search_raises(s, query, top_k, threshold) == "none"

\* VectorStore.search run without interruption: the set of lists it can return
search(s, query, top_k, threshold) ==
    IF search_is_empty(s, query) THEN {<<>>}
    ELSE LET scores == search_scores(s, query)
         IN  {top_results(s, scores, order, top_k, threshold) :
                  order \in Argsorts(scores)}

---------------------------------------------------------------------------
(* Inputs.                                                                 *)

DocIds == {"d1", "d2"}

\* a text of two paragraphs of 500 characters, one word each
TwoParagraphs(w1, w2) ==
    <<w1>> \o Rep(" ", 499) \o <<"\n", "\n">> \o <<w2>> \o Rep(" ", 499)

\* the files a document is added from: a name and the text extracted
Files ==
    { [filename |-> "f.txt", text |-> <<>>],        \* chunks into nothing
      [filename |-> "f.txt", text |-> <<" ">>],     \* one chunk with no word
      [filename |-> "f.txt", text |-> <<"A">>],
      [filename |-> "g.md",  text |-> <<"A">>],     \* the same text again
      [filename |-> "g.md",  text |-> TwoParagraphs("a", "c")] }  \* two chunks

Queries == { <<>>, <<"a">>, <<"A", " ", "b">> }
\* top_k: one result, and the five the chat handler asks for (main.py:64)
TopKs == {1, DEFAULT_TOP_K}
Thresholds == {0, SCALE \div 2}

---------------------------------------------------------------------------
(* The calls, each run to completion.                                      *)

Idle == [pc |-> "idle"]

Init ==
    /\ documents = NewStore.documents
    /\ chunks = NewStore.chunks
    /\ index = NewStore.index
    /\ vectors = NewStore.vectors
    /\ hashseed \in HashSeeds
    /\ last = [op |-> "init"]
    /\ loop = Idle
    /\ pool = Idle
    /\ started = 0

\* what a call that changes the store found there
Before == [documents |-> documents, n_chunks |-> Cardinality(DOMAIN chunks),
           n_rows |-> Len(vectors.rows)]

SetStore(s) ==
    /\ documents' = s.documents
    /\ chunks' = s.chunks
    /\ index' = s.index
    /\ vectors' = s.vectors

AddDocument(doc_id, filename, text) ==
    /\ Len(index) + Len(chunk_text(text, DEFAULT_CHUNK_SIZE, DEFAULT_OVERLAP)) <= MaxIndex
    /\ SetStore(add_document(TheStore, doc_id, filename, text))
    /\ last' = [op |-> "add_document", doc_id |-> doc_id, filename |-> filename,
                text |-> text, before |-> Before]
    /\ UNCHANGED <<hashseed, loop, pool, started>>

\* search changes nothing in the store, so a search that follows a search
\* returns what it returns in its place: only one search in a row is taken.
\* scores records the local combined_scores.
Search(query, top_k, threshold) ==
    /\ last.op # "search"
    /\ \E result \in search(TheStore, query, top_k, threshold) :
          last' = [op |-> "search", query |-> query, top_k |-> top_k,
                   threshold |-> threshold, result |-> result,
                   scores |-> search_scores(TheStore, query),
                   raised |-> search_raises(TheStore, query, top_k, threshold)]
    /\ SetStore(after_search(TheStore, query, top_k, threshold))
    /\ UNCHANGED <<hashseed, loop, pool, started>>

\* GET /documents (main.py:95-102)
GetDocuments ==
    /\ last' = [op |-> "get_documents",
                result |-> [total_documents |-> Len(get_documents(TheStore)),
                            total_chunks |-> Cardinality(DOMAIN chunks),
                            documents |-> get_documents(TheStore)]]
    /\ UNCHANGED <<store, hashseed, loop, pool, started>>

\* DELETE /clear (main.py:104-107)
Clear ==
    /\ SetStore(clear(TheStore))
    /\ last' = [op |-> "clear", before |-> Before]
    /\ UNCHANGED <<hashseed, loop, pool, started>>

Next ==
    \/ \E doc_id \in DocIds, file \in Files :
          AddDocument(doc_id, file.filename, file.text)
    \/ \E query \in Queries, top_k \in TopKs, threshold \in Thresholds :
          Search(query, top_k, threshold)
    \/ GetDocuments
    \/ Clear

Spec == Init /\ [][Next]_vars

---------------------------------------------------------------------------
(* Properties of the calls run one at a time (Spec).                       *)

Count(seq, x) == Cardinality({i \in 1..Len(seq) : seq[i] = x})

\* the number of chunks the text of the last add_document chunks into
LastM == Len(chunk_text(last.text, DEFAULT_CHUNK_SIZE, DEFAULT_OVERLAP))

ReAdded == last.op = "add_document" /\ last.doc_id \in DocKeys(last.before.documents)

\* C3: after every completed add_document or clear the matrix has one row per
\* entry of the ordered sequence (and is None exactly when the sequence is
\* empty), and row i is the stored embedding of the chunk whose id is index[i].
C3_MatrixInLockstep ==
    /\ vectors.is_none <=> index = <<>>
    /\ Len(vectors.rows) = Len(index)
    /\ \A i \in 1..Len(index) :
          /\ index[i] \in DOMAIN chunks
          /\ vectors.rows[i] = chunks[index[i]].embedding

\* an add_document of a two-chunk text, or a second add of an id, has built
\* a matrix of two rows
C3_Witness ==
    /\ last.op = "add_document"
    /\ Len(index) = 2
    /\ ~vectors.is_none
    /\ LastM = 2 \/ ReAdded

\* C4: every chunk id in a document's chunk list is a key of the chunk mapping
\* and occurs exactly once in the ordered sequence, also after an add_document
\* of an id that is already present.
C4_ChunkIdsOnce ==
    \A d \in 1..Len(documents) : \A k \in 1..Len(documents[d].chunks) :
        /\ documents[d].chunks[k] \in DOMAIN chunks
        /\ Count(index, documents[d].chunks[k]) = 1

\* C5: add_document of an id that is already present leaves the earlier
\* Document listed as it was and lists a second Document beside it.
C5_ReAddKeepsDocument ==
    ReAdded =>
        /\ \E d \in 1..Len(documents) :
              documents[d] = DocGet(last.before.documents, last.doc_id)
        /\ Len(documents) = Len(last.before.documents) + 1

\* C6: add_document of a text that chunks into M pieces stores M more chunks
\* and gives the matrix M more rows, whether the id is new or present.
C6_AddGrowsByM ==
    last.op = "add_document" =>
        /\ Cardinality(DOMAIN chunks) = last.before.n_chunks + LastM
        /\ Len(vectors.rows) = last.before.n_rows + LastM

\* C7: after clear the documents, the chunks, the ordered sequence and the
\* matrix are those of a newly constructed store, get_documents returns [],
\* and the next call returns and leaves what it does on a new store.
C7_ClearIsFresh ==
    last.op = "clear" =>
        /\ TheStore = NewStore
        /\ get_documents(TheStore) = <<>>
        /\ \A query \in Queries, top_k \in TopKs, threshold \in Thresholds :
              search(TheStore, query, top_k, threshold)
                  = search(NewStore, query, top_k, threshold)
        /\ \A doc_id \in DocIds, file \in Files :
              add_document(TheStore, doc_id, file.filename, file.text)
                  = add_document(NewStore, doc_id, file.filename, file.text)

\* clear has run on a store that held documents, chunks and a matrix
C7_Witness ==
    /\ last.op = "clear"
    /\ Len(last.before.documents) > 0
    /\ last.before.n_chunks > 0
    /\ last.before.n_rows > 0

\* a query with a nonzero embedding
NonzeroQuery(query) == Norm(embed(query)) # 0

\* C8: in a search with a nonzero query no combined score is nan: a chunk
\* whose embedding is all zero has similarity 0, so its combined score is
\* 0.3 times its keyword score.
C8_NoNaNScore ==
    (last.op = "search" /\ NonzeroQuery(last.query)) =>
        \A i \in 1..Len(last.scores) :
            /\ ~last.scores[i].nan
            /\ Norm(vectors.rows[i]) = 0 =>
                  last.scores[i] =
                      combine(Float(0),
                              keyword_score(last.query, chunks[index[i]].content))

\* the positions of the index whose chunk the result does not hold
LeftOut == {i \in 1..Len(last.scores) :
               \A r \in 1..Len(last.result) : last.result[r].chunk_id # index[i]}

Higher(a, b) == ~a.nan /\ ~b.nan /\ a.v > b.v

\* C9: a search with top_k >= 1 returns at most top_k results, in order of
\* non-increasing combined score, and no chunk it leaves out has a higher
\* combined score than one it returns.
C9_TopKSorted ==
    (last.op = "search" /\ last.top_k >= 1) =>
        /\ Len(last.result) <= last.top_k
        /\ \A r \in 1..(Len(last.result) - 1) :
              ~Higher(last.result[r + 1].similarity, last.result[r].similarity)
        /\ \A i \in LeftOut : \A r \in 1..Len(last.result) :
              ~Higher(last.scores[i], last.result[r].similarity)

\* a search with top_k = 1 over two chunks of different scores returned one
C9_Witness ==
    /\ last.op = "search"
    /\ last.top_k = 1
    /\ Len(last.result) = 1
    /\ Len(last.scores) = 2
    /\ \E i \in LeftOut : Higher(last.result[1].similarity, last.scores[i])

\* the order of the strings f"{doc_id}_{i}" (i < 10)
DocOrd(d) == CASE d = "d1" -> 1 [] d = "d2" -> 2
ChunkIdBefore(a, b) ==
    \/ DocOrd(a[1]) < DocOrd(b[1])
    \/ a[1] = b[1] /\ a[2] < b[2]

SameScore(a, b) == ~a.nan /\ ~b.nan /\ a.v = b.v

\* C10: chunks of equal combined score are returned in ascending order of
\* chunk id, and of such chunks the ones returned have the smaller ids.
C10_TiesByChunkId ==
    last.op = "search" =>
        /\ \A r \in 1..(Len(last.result) - 1) :
              SameScore(last.result[r].similarity, last.result[r + 1].similarity)
                  => ~ChunkIdBefore(last.result[r + 1].chunk_id, last.result[r].chunk_id)
        /\ \A i \in LeftOut : \A r \in 1..Len(last.result) :
              SameScore(last.scores[i], last.result[r].similarity)
                  => ~ChunkIdBefore(index[i], last.result[r].chunk_id)

\* the number of stored chunks
N == Cardinality(DOMAIN chunks)

Min(a, b) == IF a < b THEN a ELSE b

\* C11: with threshold 0 a search with a nonzero query over N >= 1 stored
\* chunks returns min(top_k, N) results, no combined score being negative;
\* with any threshold every result returned has similarity >= threshold.
C11_NothingDroppedAtZero ==
    (last.op = "search" /\ last.top_k >= 1 /\ NonzeroQuery(last.query) /\ N >= 1) =>
        /\ \A i \in 1..Len(last.scores) : AtLeast(last.scores[i], 0)
        /\ last.threshold = 0 => Len(last.result) = Min(last.top_k, N)
        /\ \A r \in 1..Len(last.result) :
              AtLeast(last.result[r].similarity, last.threshold)

\* C12: a search with top_k < 1 raises InvalidQuery and returns no list.
C12_RejectsTopKBelowOne ==
    (last.op = "search" /\ last.top_k < 1) => last.raised = "InvalidQuery"

\* C13: search and get_documents leave the documents, the chunk mapping, the
\* ordered sequence and the matrix as they were.
C13_ReadOnly ==
    [][(last' # last /\ last'.op \in {"search", "get_documents"})
          => store' = store]_vars

\* a search has returned two results from a store of two different chunks
C13_Witness ==
    /\ last.op = "search"
    /\ Len(last.result) = 2
    /\ index[1] # index[2]

---------------------------------------------------------------------------
(* The handlers as the server runs them (SpecConc).  upload_files and chat *)
(* are coroutines: they run on the event loop thread, one at a time, and   *)
(* neither awaits inside add_document or search.  get_documents and        *)
(* clear_documents are plain functions: the server runs them on a worker   *)
(* thread, and the interpreter may switch between that thread and the      *)
(* event loop thread between any two statements.  The store has no lock.   *)
(* Each action below is a run of statements with no switch inside it.      *)

ConcFiles == {f \in Files : f.text # <<>> /\ f.filename = "g.md"}
ConcQueries == { <<"a">> }

Searching == loop.pc \in {"keywords", "collect"}
Clearing == pool.pc \in {"clear_chunks", "clear_index", "clear_vectors"}

Start ==
    /\ started < MaxStarted
    /\ started' = started + 1

\* upload_files calls add_document for an id that is not a key of documents
\* (main.py:48-51).  rag.py:149-156
AddStart(doc_id, file) ==
    /\ loop.pc = "idle"
    /\ doc_id \notin DocKeys(documents)
    /\ LET cs == chunk_text(file.text, DEFAULT_CHUNK_SIZE, DEFAULT_OVERLAP) IN
       /\ Len(index) + Len(cs) <= MaxIndex
       /\ loop' = [pc |-> IF cs = <<>> THEN "rebuild" ELSE "put_chunk",
                   doc_id |-> doc_id, filename |-> file.filename,
                   text |-> file.text, cs |-> cs, i |-> 0]
    /\ SetStore(put_document(TheStore, doc_id, file.filename, file.text))
    /\ Start
    /\ UNCHANGED <<hashseed, last, pool>>

\* rag.py:158-166
AddPutChunk ==
    /\ loop.pc = "put_chunk"
    /\ SetStore(put_chunk(TheStore, loop.doc_id, loop.filename, loop.i,
                          loop.cs[loop.i + 1]))
    /\ loop' = [loop EXCEPT !.pc = "append_index"]
    /\ UNCHANGED <<hashseed, last, pool, started>>

\* rag.py:167
AddAppendIndex ==
    /\ loop.pc = "append_index"
    /\ SetStore(append_index(TheStore, chunk_id(loop.doc_id, loop.i)))
    /\ loop' = [loop EXCEPT !.pc = "append_doc"]
    /\ UNCHANGED <<hashseed, last, pool, started>>

AddRaises(error) ==
    /\ loop' = Idle
    /\ last' = [op |-> "add_document", doc_id |-> loop.doc_id,
                filename |-> loop.filename, text |-> loop.text, error |-> error]

\* rag.py:168: self.documents[doc_id] is a KeyError once clear has replaced
\* the dict
AddAppendDoc ==
    /\ loop.pc = "append_doc"
    /\ IF loop.doc_id \in DocKeys(documents)
       THEN /\ SetStore(append_doc_chunk(TheStore, loop.doc_id,
                                         chunk_id(loop.doc_id, loop.i)))
            /\ loop' = [loop EXCEPT !.i = @ + 1,
                            !.pc = IF loop.i + 1 < Len(loop.cs)
                                   THEN "put_chunk" ELSE "rebuild"]
            /\ UNCHANGED last
       ELSE /\ AddRaises("KeyError")
            /\ UNCHANGED store
    /\ UNCHANGED <<hashseed, pool, started>>

\* _rebuild_index up to the list of embeddings (rag.py:172-175):
\* self.chunks[cid] is a KeyError for an id the mapping does not hold
AddRebuild ==
    /\ loop.pc = "rebuild"
    /\ IF index = <<>>
       THEN /\ vectors' = None
            /\ loop' = Idle
            /\ last' = [op |-> "add_document", doc_id |-> loop.doc_id,
                        filename |-> loop.filename, text |-> loop.text,
                        error |-> "none"]
       ELSE IF \E i \in 1..Len(index) : index[i] \notin DOMAIN chunks
       THEN /\ AddRaises("KeyError")
            /\ UNCHANGED vectors
       ELSE /\ loop' = [loop EXCEPT !.pc = "assign",
                            !.cs = [i \in 1..Len(index) |-> chunks[index[i]].embedding]]
            /\ UNCHANGED <<vectors, last>>
    /\ UNCHANGED <<documents, chunks, index, hashseed, pool, started>>

\* self.vectors = np.array(embeddings) (rag.py:176)
AddAssign ==
    /\ loop.pc = "assign"
    /\ vectors' = Matrix(loop.cs)
    /\ loop' = Idle
    /\ last' = [op |-> "add_document", doc_id |-> loop.doc_id,
                filename |-> loop.filename, text |-> loop.text, error |-> "none"]
    /\ UNCHANGED <<documents, chunks, index, hashseed, pool, started>>

SearchReturns(query, top_k, threshold, snap, overlap, error, result) ==
    /\ loop' = Idle
    /\ last' = [op |-> "search", query |-> query, top_k |-> top_k,
                threshold |-> threshold, snap |-> snap, overlap |-> overlap,
                error |-> error, result |-> result]

\* rag.py:179-190: the early returns, and the similarities from self.vectors.
\* snap is the store the search finds; overlap is "before" when a clear was
\* already running then, "during" once a statement of a later clear has run,
\* and "no" otherwise.
SearchStart(query, top_k, threshold) ==
    /\ loop.pc = "idle"
    /\ IF search_is_empty(TheStore, query)
       THEN SearchReturns(query, top_k, threshold, TheStore,
                          IF Clearing THEN "before" ELSE "no", "none", <<>>)
       ELSE /\ loop' = [pc |-> "keywords", query |-> query, top_k |-> top_k,
                        threshold |-> threshold, snap |-> TheStore,
                        overlap |-> IF Clearing THEN "before" ELSE "no",
                        m |-> vectors, scores |-> <<>>]
            /\ UNCHANGED last
    /\ Start
    /\ UNCHANGED <<store, hashseed, pool>>

\* rag.py:193-205: the keyword scores over self.index, each from
\* self.chunks[chunk_id] (a KeyError when the mapping was emptied), then the
\* sum of the two arrays: a ValueError when their lengths differ, unless one
\* of them has length 1 and the other is empty, which gives an empty array
SearchKeywords ==
    /\ loop.pc = "keywords"
    /\ IF \E i \in 1..Len(index) : index[i] \notin DOMAIN chunks
       THEN SearchReturns(loop.query, loop.top_k, loop.threshold, loop.snap,
                          loop.overlap, "KeyError", <<>>)
       ELSE IF Len(index) = Len(loop.m.rows)
       THEN /\ loop' = [loop EXCEPT !.pc = "collect",
                   !.scores = combined_scores(loop.m, index, chunks, loop.query)]
            /\ UNCHANGED last
       ELSE IF Len(index) = 0 /\ Len(loop.m.rows) = 1
       THEN /\ loop' = [loop EXCEPT !.pc = "collect", !.scores = <<>>]
            /\ UNCHANGED last
       ELSE SearchReturns(loop.query, loop.top_k, loop.threshold, loop.snap,
                          loop.overlap, "ValueError", <<>>)
    /\ UNCHANGED <<store, hashseed, pool, started>>

\* rag.py:207-222: self.index[idx] is an IndexError and self.chunks[chunk_id]
\* a KeyError once clear has replaced them
SearchCollect ==
    /\ loop.pc = "collect"
    /\ \E order \in Argsorts(loop.scores) :
          LET top_indices == PyPrefix(Reverse(order), loop.top_k)
              kept == SelectSeq(top_indices,
                          LAMBDA i : AtLeast(loop.scores[i], loop.threshold))
          IN  IF \E k \in 1..Len(kept) : kept[k] > Len(index)
              THEN SearchReturns(loop.query, loop.top_k, loop.threshold,
                                 loop.snap, loop.overlap, "IndexError", <<>>)
              ELSE IF \E k \in 1..Len(kept) : index[kept[k]] \notin DOMAIN chunks
              THEN SearchReturns(loop.query, loop.top_k, loop.threshold,
                                 loop.snap, loop.overlap, "KeyError", <<>>)
              ELSE SearchReturns(loop.query, loop.top_k, loop.threshold,
                                 loop.snap, loop.overlap, "none",
                                 top_results(TheStore, loop.scores, order,
                                             loop.top_k, loop.threshold))
    /\ UNCHANGED <<store, hashseed, pool, started>>

\* a statement of clear ran while a search was between two of its own
NoteOverlap ==
    loop' = IF Searching /\ loop.overlap = "no"
            THEN [loop EXCEPT !.overlap = "during"] ELSE loop

\* self.documents = {} (rag.py:228)
ClearDocuments ==
    /\ pool.pc = "idle"
    /\ documents' = EmptyDict
    /\ pool' = [pc |-> "clear_chunks"]
    /\ NoteOverlap
    /\ Start
    /\ UNCHANGED <<chunks, index, vectors, hashseed, last>>

\* self.chunks = {} (rag.py:229)
ClearChunks ==
    /\ pool.pc = "clear_chunks"
    /\ chunks' = EmptyDict
    /\ pool' = [pool EXCEPT !.pc = "clear_index"]
    /\ NoteOverlap
    /\ UNCHANGED <<documents, index, vectors, hashseed, last, started>>

\* self.index = [] (rag.py:230)
ClearIndex ==
    /\ pool.pc = "clear_index"
    /\ index' = <<>>
    /\ pool' = [pool EXCEPT !.pc = "clear_vectors"]
    /\ NoteOverlap
    /\ UNCHANGED <<documents, chunks, vectors, hashseed, last, started>>

\* self.vectors = None (rag.py:231), and the response
ClearVectors ==
    /\ pool.pc = "clear_vectors"
    /\ vectors' = None
    /\ pool' = Idle
    /\ NoteOverlap
    /\ last' = [op |-> "clear"]
    /\ UNCHANGED <<documents, chunks, index, hashseed, started>>

\* GET /documents on the worker thread (main.py:95-102)
PoolGetDocuments ==
    /\ pool.pc = "idle"
    /\ last' = [op |-> "get_documents",
                result |-> [total_documents |-> Len(get_documents(TheStore)),
                            total_chunks |-> Cardinality(DOMAIN chunks),
                            documents |-> get_documents(TheStore)]]
    /\ Start
    /\ UNCHANGED <<store, hashseed, loop, pool>>

NextConc ==
    \/ \E doc_id \in DocIds, file \in ConcFiles : AddStart(doc_id, file)
    \/ AddPutChunk
    \/ AddAppendIndex
    \/ AddAppendDoc
    \/ AddRebuild
    \/ AddAssign
    \/ \E query \in ConcQueries, top_k \in TopKs : SearchStart(query, top_k, 0)
    \/ SearchKeywords
    \/ SearchCollect
    \/ ClearDocuments
    \/ ClearChunks
    \/ ClearIndex
    \/ ClearVectors
    \/ PoolGetDocuments

SpecConc == Init /\ [][NextConc]_vars

---------------------------------------------------------------------------
(* Properties of the handlers as the server runs them (SpecConc).          *)

\* C1: a search that runs while clear (or add_document) runs does not fail
\* (no missing chunk, no matrix of another length than the ordered sequence),
\* and a search that began with no clear running returns what a search run
\* alone returns on the store it found or, when a clear began meanwhile, on
\* the store that clear leaves.
C1_SearchSnapshot ==
    last.op = "search" =>
        /\ last.error = "none"
        /\ \/ last.overlap = "before"
           \/ last.result \in
                 search(last.snap, last.query, last.top_k, last.threshold)
           \/ /\ last.overlap = "during"
              /\ last.result \in
                    search(clear(last.snap), last.query, last.top_k, last.threshold)

\* the chunk ids add_document gives the chunks of a document
ExpectedChunks(doc) ==
    [k \in 1..Len(chunk_text(doc.text, DEFAULT_CHUNK_SIZE, DEFAULT_OVERLAP)) |->
        chunk_id(doc.id, k - 1)]

\* all chunks of the document are in its chunk list, in the chunk mapping,
\* in the ordered sequence and in the matrix
Ingested(doc) ==
    /\ doc.chunks = ExpectedChunks(doc)
    /\ \A k \in 1..Len(doc.chunks) :
          /\ doc.chunks[k] \in DOMAIN chunks
          /\ \E i \in 1..Len(index) :
                /\ index[i] = doc.chunks[k]
                /\ i <= Len(vectors.rows)
                /\ vectors.rows[i] = chunks[doc.chunks[k]].embedding

\* no chunk of a document that is absent is stored, and the matrix has the
\* rows of the ordered sequence
NothingLeftBehind ==
    /\ \A cid \in DOMAIN chunks \cup Range(index) : cid[1] \in DocKeys(documents)
    /\ Len(vectors.rows) = Len(index)

\* C2: whenever get_documents can run, every document listed is ingested
\* whole and nothing of an absent document is stored; add_document never
\* raises.
C2_AllOrNothing ==
    /\ pool.pc = "idle" =>
          /\ \A d \in 1..Len(documents) : Ingested(documents[d])
          /\ NothingLeftBehind
    /\ last.op = "add_document" => last.error = "none"

---------------------------------------------------------------------------
(* Runs of the program (SpecRuns).  The store lives in the memory of the   *)
(* process (vector_store = VectorStore(), rag.py:234) and the seed of the  *)
(* str hash is drawn when the interpreter starts: a new run starts from a  *)
(* new store with a seed of its own.                                       *)

\* the texts whose embedding one run and the next both compute
EmbedTexts == Queries \cup {f.text : f \in {g \in Files : Len(g.text) <= 1}}

\* the process ends and the program is started again
Restart ==
    /\ SetStore(NewStore)
    /\ hashseed' \in HashSeeds
    /\ last' = [op |-> "restart", embedded |-> [t \in EmbedTexts |-> embed(t)]]
    /\ UNCHANGED <<loop, pool, started>>

NextRuns == Next \/ Restart

SpecRuns == Init /\ [][NextRuns]_vars

\* C14: embed returns for every text the vector it returned for that text in
\* the run before: the slot of a word depends on the word alone.
C14_EmbedSameInEveryRun ==
    last.op = "restart" =>
        \A t \in EmbedTexts : embed(t) = last.embedded[t]
---------------------------------------------------------------------------
(* TextChunker.chunk_text called alone (SpecChunk), on every text of       *)
(* letters, sentence ends, blanks and newlines up to MaxLen characters.    *)

ChunkAlphabet == {"a", ".", " ", "\n"}
ChunkTexts == UNION {[1..n -> ChunkAlphabet] : n \in 0..MaxLen}
ChunkSizes == 1..MaxChunkSize

\* a new store and the arguments of one call; the chunker reads no hash
InitChunk ==
    /\ documents = NewStore.documents
    /\ chunks = NewStore.chunks
    /\ index = NewStore.index
    /\ vectors = NewStore.vectors
    /\ hashseed = 1
    /\ \E text \in ChunkTexts, chunk_size \in ChunkSizes :
          last = [op |-> "arguments", text |-> text, chunk_size |-> chunk_size]
    /\ loop = Idle
    /\ pool = Idle
    /\ started = 0

ChunkText ==
    /\ last.op = "arguments"
    /\ last' = [op |-> "chunk_text", text |-> last.text,
                chunk_size |-> last.chunk_size,
                result |-> chunk_text(last.text, last.chunk_size, DEFAULT_OVERLAP)]
    /\ UNCHANGED <<store, hashseed, loop, pool, started>>

NextChunk == ChunkText

SpecChunk == InitChunk /\ [][NextChunk]_vars

\* C15: no chunk is longer than chunk_size.
C15_ChunksBounded ==
    last.op = "chunk_text" =>
        \A k \in 1..Len(last.result) : Len(last.result[k]) <= last.chunk_size

\* C18: no chunk of a non-empty text is the empty string.
C18_NoEmptyChunk ==
    (last.op = "chunk_text" /\ last.text # <<>>) =>
        \A k \in 1..Len(last.result) : last.result[k] # <<>>

\* the characters of s that are not whitespace, in order
NonWhitespace(s) == SelectSeq(s, LAMBDA c : c \notin Whitespace)

RECURSIVE Concat(_)
Concat(ss) == IF ss = <<>> THEN <<>> ELSE Head(ss) \o Concat(Tail(ss))

\* C19: the non-whitespace characters of the chunks, in chunk order, are the
\* non-whitespace characters of the text, in order.
C19_NoContentLost ==
    last.op = "chunk_text" =>
        NonWhitespace(Concat(last.result)) = NonWhitespace(last.text)

\* a first paragraph longer than chunk_size was split into sentences and the
\* buffer it left was carried into a second paragraph that has content
C19_Witness ==
    /\ last.op = "chunk_text"
    /\ LET paragraphs == split_paragraphs(last.text)
       IN  /\ Len(paragraphs) = 2
           /\ Len(paragraphs[1]) > last.chunk_size
           /\ Len(split_sentences(paragraphs[1])) >= 2
           /\ NonWhitespace(paragraphs[2]) # <<>>
    /\ Len(last.result) >= 2
---------------------------------------------------------------------------
(* Ranking of two documents (SpecRank): add_document and search on texts   *)
(* of several words, one chunk each, under every hash of HashSeeds.        *)

\* the words of a text, joined by single blanks
RECURSIVE Join(_)
Join(ws) ==
    IF ws = <<>> THEN <<>>
    ELSE IF Len(ws) = 1 THEN ws[1]
    ELSE ws[1] \o <<" ">> \o Join(Tail(ws))

RankFiles ==
    { [filename |-> "f.txt", text |-> <<"b">>],
      [filename |-> "f.txt", text |-> Join(<< <<"a","a">>, <<"a","a">>, <<"a","a">>, <<"b">> >>)],
      [filename |-> "f.txt", text |-> Join(<< <<"b">>, <<"a","a">>, <<"a","a">>, <<"a","a">> >>)],
      [filename |-> "g.md",  text |-> <<"c">>],
      [filename |-> "g.md",  text |-> <<"a","b">>] }

RankQueries == { <<"b">>, <<"c">> }
\* top_k: two, the default, and values below 1, which the signature of search
\* lets a caller pass
RankTopKs == {-1, 0, 2, DEFAULT_TOP_K}

NextRank ==
    \/ \E doc_id \in DocIds, file \in RankFiles :
          AddDocument(doc_id, file.filename, file.text)
    \/ \E query \in RankQueries, top_k \in RankTopKs :
          Search(query, top_k, 0)
    \/ Clear

SpecRank == Init /\ [][NextRank]_vars

\* the words of a text as search compares them (rag.py:193, 196-197)
Words(text) == Range(split(lower(text)))

\* chunk i of the index is the one chunk of its document, every word of the
\* query occurs in it, and chunk j is the one chunk of another document that
\* shares no word with chunk i
OnlyFirstMatches(i, j) ==
    /\ index[i][1] # index[j][1]
    /\ Len(DocGet(documents, index[i][1]).chunks) = 1
    /\ Len(DocGet(documents, index[j][1]).chunks) = 1
    /\ Words(last.query) # {}
    /\ Words(last.query) \subseteq Words(chunks[index[i]].content)
    /\ Words(chunks[index[i]].content) \cap Words(chunks[index[j]].content) = {}

\* C16: of two one-chunk documents with no word in common, the one that holds
\* the words of the query is scored strictly higher and returned first by a
\* search with top_k >= 2.
C16_MatchingDocumentFirst ==
    (last.op = "search" /\ last.top_k >= 2 /\ Len(index) = 2) =>
        \A i, j \in 1..2 :
            OnlyFirstMatches(i, j) =>
                /\ Higher(last.scores[i], last.scores[j])
                /\ Len(last.result) >= 1
                /\ last.result[1].chunk_id = index[i]
---------------------------------------------------------------------------
(* POST /upload (SpecUpload).  A filename and a content are sequences of   *)
(* characters; the character "xff" is a byte that is no UTF-8.  No content *)
(* of the model is a PDF or a Word file: PdfReader and Document raise on   *)
(* each of them.  A request with several files runs the body of the loop   *)
(* once per file, awaiting file.read() in between.                         *)

\* str.startswith, str.endswith
startswith(s, prefix) ==
    Len(s) >= Len(prefix) /\ SubSeq(s, 1, Len(prefix)) = prefix
endswith(s, suffix) ==
    Len(s) >= Len(suffix) /\ SubSeq(s, Len(s) - Len(suffix) + 1, Len(s)) = suffix

Error == <<"E", "r", "r", "o", "r">>
Unsupported == <<"U", "n", "s", "u", "p", "p", "o", "r", "t", "e", "d">>
Reading == <<" ", "r", "e", "a", "d", "i", "n", "g", " ">>

\* the except branch of the extractor is taken (rag.py:72, 84, 91); the text
\* of the exception is left out of the message
is_pdf(content) == FALSE
is_docx(content) == FALSE
is_utf8(content) == \A k \in 1..Len(content) : content[k] # "xff"

\* rag.py:64-73
extract_text_from_pdf(content) ==
    IF is_pdf(content) THEN content
    ELSE Error \o Reading \o <<"P", "D", "F", ":", " ">>

\* rag.py:76-85
extract_text_from_docx(content) ==
    IF is_docx(content) THEN content
    ELSE Error \o Reading \o <<"D", "O", "C", "X", ":", " ">>

\* rag.py:88-92
extract_text_from_txt(content) ==
    IF is_utf8(content) THEN content
    ELSE Error \o Reading \o <<"T", "X", "T", ":", " ">>

\* DocumentProcessor.process_file
process_file(filename, content) ==
    IF endswith(filename, <<".", "p", "d", "f">>)
    THEN extract_text_from_pdf(content)
    ELSE IF endswith(filename, <<".", "d", "o", "c", "x">>)
    THEN extract_text_from_docx(content)
    ELSE IF \/ endswith(filename, <<".", "t", "x", "t">>)
            \/ endswith(filename, <<".", "m", "d">>)
    THEN extract_text_from_txt(content)
    ELSE Unsupported \o <<" ", "f", "i", "l", "e", " ", "t", "y", "p", "e", ":", " ">>
             \o filename

\* hashlib.md5(content).hexdigest() (main.py:40): a digest of the content
\* alone; the digest here is a 16-bit polynomial, and the contents of the
\* model have digests that differ, as their md5 digests do
md5(content) == WordCode(content)
\* the body of the loop with the test of the extracted text (main.py:44-45)
\* left out
upload_file_unchecked(s, filename, content) ==
    LET file_hash == md5(content)
        text == process_file(filename, content)
    IN  IF file_hash \in DocKeys(s.documents)
        THEN [store |-> s, status |-> "already_exists", message |-> <<>>]
        ELSE [store |-> add_document(s, file_hash, filename, text),
              status |-> "processed", message |-> <<>>]

\* the body of the loop with the lookup of the hash (main.py:48-49) left out
upload_file_without_lookup(s, filename, content) ==
    LET file_hash == md5(content)
        text == process_file(filename, content)
    IN  IF startswith(text, Error) \/ startswith(text, Unsupported)
        THEN [store |-> s, status |-> "error", message |-> text]
        ELSE [store |-> add_document(s, file_hash, filename, text),
              status |-> "processed", message |-> <<>>]

\* the body of the loop of upload_files (main.py:39-52): the store after it
\* and the entry appended to results
upload_file(s, filename, content) ==
    LET file_hash == md5(content)
        text == process_file(filename, content)
    IN  IF startswith(text, Error) \/ startswith(text, Unsupported)
        THEN [store |-> s, status |-> "error", message |-> text]
        ELSE IF file_hash \in DocKeys(s.documents)
        THEN [store |-> s, status |-> "already_exists", message |-> <<>>]
        ELSE [store |-> add_document(s, file_hash, filename, text),
              status |-> "processed", message |-> <<>>]

UploadNames ==
    { <<"a", ".", "t", "x", "t">>, <<"a", ".", "m", "d">>,
      <<"a", ".", "p", "d", "f">>, <<"a", ".", "d", "o", "c", "x">>,
      <<"a", ".", "e", "x", "e">> }

UploadContents ==
    { <<>>, <<"A">>, <<"a", " ", "c">>, <<"xff">>, Error \o <<" ", "a">> }

\* one file of a POST /upload; cleared holds the ids a clear has just removed
Upload(filename, content) ==
    /\ LET r == upload_file(TheStore, filename, content) IN
          /\ SetStore(r.store)
          /\ last' = [op |-> "upload", filename |-> filename, content |-> content,
                      status |-> r.status, message |-> r.message,
                      before |-> TheStore,
                      cleared |-> IF last.op = "clear"
                                  THEN DocKeys(last.before.documents) ELSE {}]
    /\ UNCHANGED <<hashseed, loop, pool, started>>

NextUpload ==
    \/ \E filename \in UploadNames, content \in UploadContents :
          Upload(filename, content)
    \/ Clear

SpecUpload == Init /\ [][NextUpload]_vars

\* the extractor reports an unsupported type or a failure of the extraction
ExtractionFailed(filename, content) ==
    \/ endswith(filename, <<".", "p", "d", "f">>) /\ ~is_pdf(content)
    \/ endswith(filename, <<".", "d", "o", "c", "x">>) /\ ~is_docx(content)
    \/ /\ endswith(filename, <<".", "t", "x", "t">>) \/ endswith(filename, <<".", "m", "d">>)
       /\ ~is_utf8(content)
    \/ \A ext \in {<<".", "p", "d", "f">>, <<".", "d", "o", "c", "x">>,
                   <<".", "t", "x", "t">>, <<".", "m", "d">>} : ~endswith(filename, ext)

\* C17: an upload of a file whose extraction failed or whose type is not
\* supported reports an error with the extractor's message and leaves
\* documents, chunks, index and matrix as they were.
C17_FailedExtractionNotIndexed ==
    (last.op = "upload" /\ ExtractionFailed(last.filename, last.content)) =>
        /\ last.status = "error"
        /\ last.message = process_file(last.filename, last.content)
        /\ TheStore = last.before

\* an upload whose extraction failed has run on a store that holds a document
\* with a chunk
C17_Witness ==
    /\ last.op = "upload"
    /\ ExtractionFailed(last.filename, last.content)
    /\ Len(last.before.index) > 0
    /\ last.status = "error"

\* the content of the upload is a document of the store the upload found
HashPresent == md5(last.content) \in DocKeys(last.before.documents)

\* every content has at most one document, and no chunk id is twice in the
\* ordered sequence
OneDocumentPerContent ==
    /\ \A d, e \in 1..Len(documents) :
          d # e => /\ documents[d].id # documents[e].id
                   /\ documents[d].text # documents[e].text
    /\ \A i, j \in 1..Len(index) : i # j => index[i] # index[j]

=============================================================================
